---- MODULE Spec2Model ----
(***************************************************************************)
(* HDRMerge: the ingestion orchestrator (ImageIO::load, ImageIO::save),    *)
(* the filename index (FileNameManipulator), the output path resolver      *)
(* (ImageIO::replaceArguments, ImageIO::buildOutputFileName), the batch    *)
(* driver (Launcher::automaticMerge, Launcher::getBracketedSets) and the   *)
(* metadata transfer (ExifTransfer::copyMetadata).                         *)
(*                                                                         *)
(* Strings are sequences of one-character strings; C++ 0-based positions   *)
(* are kept in the operators' parameters and shifted by one only where a   *)
(* TLA+ sequence is indexed.                                               *)
(***************************************************************************)
EXTENDS Integers, Sequences, FiniteSets, TLC

VARIABLES
    \* ---- ImageIO (the orchestrator object)
    stack,          \* ImageStack: the item index of each exposure, in stack order
    rawParameters,  \* descriptor list: [item |-> index, fmt |-> format]
    \* ---- one call of ImageIO::load
    options,        \* the call: [numImages, frameCount, items decoded so far]
    loopI,          \* the loop variable i
    error,          \* 0, 1 (decode failure), 2 (format mismatch)
    failedImage,
    result,         \* the value load returned
    pc,             \* "start", "picked", "skipped", "loop", "after", "returned",
                    \* "reported", "saved", "crashed"
    decoded,        \* the item indices handed to loadRawImage, in call order
    ub,             \* TRUE once *rawParameters.front() was evaluated on an empty list
    loads,          \* number of load calls made on this orchestrator
    general,        \* Launcher::generalOptions: the switches automaticMerge reads
    switches,       \* options.align, .crop, .useCustomWl as load read them
    mergeSet,       \* the set the loop of automaticMerge is at
    stages,         \* the stack-level stages the current load ran, in order
    canAlign,       \* what canAlign() of the front descriptor answered
    saveParams,     \* <<descriptor>> that the last save handed to the writer
    pct,            \* p of load: the percentage its next report carries
    step,           \* step of load: what p grows by per file or frame
    progress,       \* what the progress indicator of the current set was told
    mergeResult,    \* result of automaticMerge, the variable it returns
    errors,         \* load-failure messages automaticMerge wrote to cerr
    \* ---- one call of ImageIO::replaceArguments / buildOutputFileName
    names,          \* fileName of each descriptor, in descriptor-list order
    pattern,
    outFileName,
    resolved,       \* the string returned
    rpc,            \* "idle" (no call), "ready" (arguments given), "done"
    \* ---- one call of Launcher::getBracketedSets
    fileList,       \* generalOptions.fileNames: what the raw backend reports for each
    batchGap,       \* generalOptions.batchGap, in seconds
    sets,           \* the list returned: each set is a sequence of positions of fileList
    bpc,            \* "idle" (no call), "ready", "done"
    \* ---- ExifTransfer::copyMetadata
    srcMeta,        \* metadata of the source file: [xmp, iptc, exif], key -> value
    dstMeta,        \* metadata of the destination image held in memory
    dstBefore,      \* dstMeta as the latest copyMetadata found it
    srcOk,          \* the source file can be opened and read
    dstOk,          \* the destination data can be opened and read
    persist,        \* the last step of the latest call: "none", "written", "failed"
    written,        \* <<metadata>> of the destination file once it was written
    fpc,            \* "idle" (no call), "ready", "fused", "refused"
    srcFault        \* the error the copy steps of the first call met in the source

loadVars == <<stack, rawParameters, options, loopI, error, failedImage, result,
              pc, decoded, ub, loads, general, mergeSet, stages, canAlign, switches,
              saveParams, pct, step, progress, mergeResult, errors>>
nameVars == <<names, pattern, outFileName, resolved, rpc>>
bracketVars == <<fileList, batchGap, sets, bpc>>
exifVars == <<srcMeta, dstMeta, dstBefore, srcOk, dstOk, persist, written, fpc,
              srcFault>>
notLoadVars == <<nameVars, bracketVars, exifVars>>
notNameVars == <<loadVars, bracketVars, exifVars>>
notBracketVars == <<loadVars, nameVars, exifVars>>
notExifVars == <<loadVars, nameVars, bracketVars>>
vars == <<stack, rawParameters, options, loopI, error, failedImage, result,
          pc, decoded, ub, loads, general, mergeSet, stages, canAlign, switches, saveParams,
          pct, step, progress, mergeResult, errors,
          names, pattern, outFileName, resolved, rpc,
          fileList, batchGap, sets, bpc,
          srcMeta, dstMeta, dstBefore, srcOk, dstOk, persist, written, fpc, srcFault>>

----------------------------------------------------------------------------
(* Bounds of the model *)

MaxFiles == 3        \* largest number of input files in one batch
MaxLoads == 2        \* load calls made on one orchestrator
MaxProbe == 5        \* largest frame count the probe reports
NumFormats == 2      \* distinct sensor formats among the inputs

(* Program constants *)

MaxFrames == 4       \* frameCount <= 4

----------------------------------------------------------------------------
(* ImageIO::load *)

Item == [good : BOOLEAN, fmt : 1..NumFormats]

\* The calls of load: more than one file, or a single file with the frame count
\* the probe reports for it. items collects what the decoding backend answers
\* for each file (or frame) as load reaches it.
Batches ==
    { [numImages |-> n, frameCount |-> 0, items |-> <<>>] : n \in 2..MaxFiles }
    \cup
    { [numImages |-> 1, frameCount |-> fc, items |-> <<>>] : fc \in 0..MaxProbe }

\* Number of iterations the loop of load is set up for.
LoopLimit(b) ==
    IF b.numImages = 1
    THEN (IF b.frameCount > 0 /\ b.frameCount <= MaxFrames THEN b.frameCount ELSE 0)
    ELSE b.numImages

\* RawParameters::isSameFormat
isSameFormat(a, b) == a.fmt = b.fmt

\* ImageStack::addImage: the exposure ends at position pos (0-based).
StackAddImage(s, img, pos) ==
    SubSeq(s, 1, pos) \o <<img>> \o SubSeq(s, pos + 1, Len(s))

\* rawParameters[a].swap(rawParameters[b]), 0-based a and b
SwapAt(rp, a, b) ==
    [rp EXCEPT ![a + 1] = rp[b + 1], ![b + 1] = rp[a + 1]]

RECURSIVE SwapLoop(_, _, _)
\* for (j = ...; j > pos; --j) rawParameters[j - 1].swap(rawParameters[j]);
SwapLoop(rp, j, pos) ==
    IF j > pos THEN SwapLoop(SwapAt(rp, j - 1, j), j - 1, pos) ELSE rp

MoveToPosNoLoop(rp, params, pos) == Append(rp, params)

\* rawParameters.emplace_back(params) and the loop that moves it to pos
MoveToPos(rp, params, pos) ==
    LET grown == Append(rp, params)
    IN  SwapLoop(grown, Len(grown) - 1, pos)

ClearedKeep(s) == s

\* stack.clear() / rawParameters.clear() at the start of load
Cleared(s) == <<>>

\* The switches of a run that automaticMerge reads (Launcher::parseCommandLine)
GeneralOptions == [withSingles : BOOLEAN, batch : BOOLEAN]

DefaultOptions == [withSingles |-> FALSE, batch |-> FALSE]

\* The switches of a set that load reads once its loop is over
Switches == [align : BOOLEAN, crop : BOOLEAN, useCustomWl : BOOLEAN]

NoSwitches == [align |-> FALSE, crop |-> FALSE, useCustomWl |-> FALSE]

SkipsEverySingle(b) == b.numImages = 1

\* !options.withSingles && options.fileNames.size() == 1
SkipsSingle(b) == ~general.withSingles /\ b.numImages = 1

\* for (LoadOptions & options : optionsSet): the loop reaches its next set.
\* Without --batch optionsSet holds the one set of generalOptions. What the
\* previous iteration computed in its locals (setOptions, the stages it ran,
\* the descriptor save copied) is gone.
MergePick ==
    /\ pc \in {"start", "skipped", "reported", "saved"}
    /\ general.batch \/ pc = "start"
    /\ loads < MaxLoads
    /\ \E b \in Batches : mergeSet' = b
    /\ pc' = "picked"
    /\ stages' = <<>>
    /\ canAlign' = FALSE
    /\ switches' = NoSwitches
    /\ saveParams' = <<>>
    /\ names' = <<>>
    /\ pattern' = <<>>
    /\ resolved' = <<>>
    /\ progress' = <<>>
    /\ UNCHANGED <<stack, rawParameters, options, loopI, error, failedImage,
                   result, decoded, ub, loads, general>>
    /\ UNCHANGED <<pct, step, mergeResult, errors>>
    /\ UNCHANGED <<outFileName, rpc, bracketVars, exifVars>>

\* "Skipping single image": continue
MergeSkip ==
    /\ pc = "picked"
    /\ SkipsSingle(mergeSet)
    /\ pc' = "skipped"
    /\ UNCHANGED <<stack, rawParameters, options, loopI, error, failedImage,
                   result, decoded, ub, loads, general, mergeSet, stages,
                   canAlign, switches, saveParams>>
    /\ UNCHANGED <<pct, step, progress, mergeResult, errors>>
    /\ UNCHANGED notLoadVars

\* progress.advance(percent, message, arg) as the indicator receives it
Report(percent, message) == [percent |-> percent, message |-> message]

\* progress.advance(p, "Processing stack") ... progress.advance(100, "Done loading!")
DoneLoading(percent) ==
    << Report(percent, "Processing stack"), Report(100, "Done loading!") >>

StepRoundedUp(b) ==
    LET n == IF b.numImages = 1 THEN b.frameCount ELSE b.numImages
    IN  (100 + n) \div (n + 1)

\* step = 100 / (frameCount + 1) for one file, 100 / (numImages + 1) for more
StepOf(b) ==
    LET n == IF b.numImages = 1 THEN b.frameCount ELSE b.numImages
    IN  100 \div (n + 1)

\* io.load(options, progress) is entered
LoadBegin ==
    /\ pc = "picked"
    /\ ~SkipsSingle(mergeSet)
    /\ options' = mergeSet
    /\ stack' = Cleared(stack)
    /\ rawParameters' = Cleared(rawParameters)
    /\ loopI' = 0
    /\ error' = 0
    /\ failedImage' = 0
    /\ decoded' = <<>>
    /\ loads' = loads + 1
    /\ pc' = "loop"
    /\ UNCHANGED <<result, ub, general, mergeSet, stages, canAlign, switches,
                   saveParams>>
    /\ pct' = 0
    /\ step' = StepOf(mergeSet)
    /\ progress' = <<>>
    /\ UNCHANGED <<mergeResult, errors>>
    /\ UNCHANGED notLoadVars

\* The outcome of loadRawImage for item i joins the record of the call.
Decoded(it) == [options EXCEPT !.items = Append(@, it)]

\* !image.good(): error = 1, failedImage = i, break
LoadDecodeFailure ==
    /\ pc = "loop"
    /\ loopI < LoopLimit(options)
    /\ \E it \in Item :
        /\ ~it.good
        /\ options' = Decoded(it)
    /\ decoded' = Append(decoded, loopI)
    /\ error' = 1
    /\ failedImage' = loopI
    /\ pc' = "after"
    /\ UNCHANGED <<stack, rawParameters, loopI, result, ub, loads, general,
                   mergeSet, stages, canAlign, switches, saveParams>>
    /\ progress' = Append(progress, Report(pct, "Loading"))
    /\ pct' = pct + step
    /\ UNCHANGED <<step, mergeResult, errors>>
    /\ UNCHANGED notLoadVars

MismatchNever(params) == FALSE

\* stack.size() && !params->isSameFormat(*rawParameters.front())
Mismatch(params) ==
    /\ Len(stack) > 0
    /\ ~isSameFormat(params, Head(rawParameters))

\* error = 2, failedImage = i, break
LoadFormatMismatch ==
    /\ pc = "loop"
    /\ loopI < LoopLimit(options)
    /\ \E it \in Item :
        /\ it.good
        /\ Mismatch([item |-> loopI, fmt |-> it.fmt])
        /\ options' = Decoded(it)
    /\ decoded' = Append(decoded, loopI)
    /\ error' = 2
    /\ failedImage' = loopI
    /\ pc' = "after"
    /\ UNCHANGED <<stack, rawParameters, loopI, result, ub, loads, general,
                   mergeSet, stages, canAlign, switches, saveParams>>
    /\ progress' = Append(progress, Report(pct, "Loading"))
    /\ pct' = pct + step
    /\ UNCHANGED <<step, mergeResult, errors>>
    /\ UNCHANGED notLoadVars

\* pos = stack.addImage(image); the descriptor is moved to pos; ++i
LoadInsert ==
    /\ pc = "loop"
    /\ loopI < LoopLimit(options)
    /\ \E it \in Item :
        /\ it.good
        /\ ~Mismatch([item |-> loopI, fmt |-> it.fmt])
        /\ options' = Decoded(it)
        /\ \E pos \in 0..Len(stack) :
            /\ stack' = StackAddImage(stack, loopI, pos)
            /\ rawParameters' =
                  MoveToPos(rawParameters, [item |-> loopI, fmt |-> it.fmt], pos)
    /\ decoded' = Append(decoded, loopI)
    /\ loopI' = loopI + 1
    /\ UNCHANGED <<error, failedImage, result, pc, ub, loads, general, mergeSet,
                   stages, canAlign, switches, saveParams>>
    /\ progress' = Append(progress, Report(pct, "Loading"))
    /\ pct' = pct + step
    /\ UNCHANGED <<step, mergeResult, errors>>
    /\ UNCHANGED notLoadVars

\* i reached the loop's limit
LoadLoopEnd ==
    /\ pc = "loop"
    /\ loopI >= LoopLimit(options)
    /\ pc' = "after"
    /\ UNCHANGED <<stack, rawParameters, options, loopI, error, failedImage,
                   result, decoded, ub, loads, general, mergeSet, stages,
                   canAlign, switches, saveParams>>
    /\ UNCHANGED <<pct, step, progress, mergeResult, errors>>
    /\ UNCHANGED notLoadVars

ErrorCodeNoShift(failed, err) == failed + err - 1

\* (failedImage << 1) + error - 1
ErrorCode(failed, err) == failed * 2 + err - 1

\* numImages << 1
SuccessCode(n) == n * 2

\* if (error) { stack.clear(); rawParameters.clear(); return ...; }
LoadAbort ==
    /\ pc = "after"
    /\ error # 0
    /\ stack' = <<>>
    /\ rawParameters' = <<>>
    /\ result' = ErrorCode(failedImage, error)
    /\ pc' = "returned"
    /\ UNCHANGED <<options, loopI, error, failedImage, decoded, ub, loads,
                   general, mergeSet, stages, canAlign, switches, saveParams>>
    /\ UNCHANGED <<pct, step, progress, mergeResult, errors>>
    /\ UNCHANGED notLoadVars

StagesIndependent(opts, can) ==
    <<"setFlip">>
    \o (IF opts.useCustomWl THEN <<"whiteLevel">> ELSE <<>>)
    \o <<"calculateSaturationLevel">>
    \o (IF opts.align /\ can THEN <<"align">> ELSE <<>>)
    \o (IF opts.crop THEN <<"crop">> ELSE <<>>)
    \o <<"computeResponseFunctions", "generateMask">>

StagesMaskFirst(opts, can) ==
    <<"generateMask", "setFlip", "calculateSaturationLevel",
      "computeResponseFunctions">>

\* The calls load makes on the stack after the loop, in program order; the
\* white-level ceiling is the assignment to params.max
Stages(opts, can) ==
    <<"setFlip">>
    \o (IF opts.useCustomWl THEN <<"whiteLevel">> ELSE <<>>)
    \o <<"calculateSaturationLevel">>
    \o (IF opts.align /\ can
        THEN <<"align">> \o (IF opts.crop THEN <<"crop">> ELSE <<>>)
        ELSE <<>>)
    \o <<"computeResponseFunctions", "generateMask">>

\* Post-processing on a populated stack, then return numImages << 1.
LoadProcess ==
    /\ pc = "after"
    /\ error = 0
    /\ Len(rawParameters) > 0
    /\ \E opts \in Switches, can \in BOOLEAN :
        /\ switches' = opts
        /\ canAlign' = can
        /\ stages' = Stages(opts, can)
    /\ result' = SuccessCode(options.numImages)
    /\ pc' = "returned"
    /\ UNCHANGED <<stack, rawParameters, options, loopI, error, failedImage,
                   decoded, ub, loads, general, mergeSet, saveParams>>
    /\ progress' = progress \o DoneLoading(pct)
    /\ UNCHANGED <<pct, step, mergeResult, errors>>
    /\ UNCHANGED notLoadVars

\* RawParameters & params = *rawParameters.front() with nothing in the list:
\* undefined behaviour. The call either dies there or goes on with whatever
\* the reference names and returns numImages << 1.
LoadProcessEmpty ==
    /\ pc = "after"
    /\ error = 0
    /\ Len(rawParameters) = 0
    /\ ub' = TRUE
    /\ \/ /\ pc' = "crashed"
          /\ progress' = Append(progress, Report(pct, "Processing stack"))
          /\ UNCHANGED <<result, stages, canAlign, switches>>
       \/ /\ pc' = "returned"
          /\ progress' = progress \o DoneLoading(pct)
          /\ \E opts \in Switches, can \in BOOLEAN :
              /\ switches' = opts
              /\ canAlign' = can
              /\ stages' = Stages(opts, can)
          /\ result' = SuccessCode(options.numImages)
    /\ UNCHANGED <<stack, rawParameters, options, loopI, error, failedImage,
                   decoded, loads, general, mergeSet, saveParams>>
    /\ UNCHANGED <<pct, step, mergeResult, errors>>
    /\ UNCHANGED notLoadVars

EmptyBatch == [numImages |-> 1, frameCount |-> 0, items |-> <<>>]

\* ImageIO io: a fresh orchestrator
OrchestratorInit ==
    /\ stack = <<>>
    /\ rawParameters = <<>>
    /\ options = EmptyBatch
    /\ loopI = 0
    /\ error = 0
    /\ failedImage = 0
    /\ result = 0
    /\ pc = "start"
    /\ decoded = <<>>
    /\ ub = FALSE
    /\ loads = 0
    /\ mergeSet = EmptyBatch
    /\ stages = <<>>
    /\ canAlign = FALSE
    /\ switches = NoSwitches
    /\ saveParams = <<>>
    /\ pct = 0
    /\ step = 0
    /\ progress = <<>>
    /\ mergeResult = 0
    /\ errors = 0

LoadInit == OrchestratorInit /\ general = DefaultOptions

NameIdle ==
    /\ names = <<>>
    /\ pattern = <<>>
    /\ outFileName = <<>>
    /\ resolved = <<>>
    /\ rpc = "idle"

BracketIdle ==
    /\ fileList = <<>>
    /\ batchGap = 0
    /\ sets = <<>>
    /\ bpc = "idle"

\* no metadata in any of the three namespaces
NoMeta == [xmp |-> <<>>, iptc |-> <<>>, exif |-> <<>>]

ExifIdle ==
    /\ srcMeta = NoMeta
    /\ dstMeta = NoMeta
    /\ dstBefore = NoMeta
    /\ srcOk = FALSE
    /\ dstOk = FALSE
    /\ persist = "none"
    /\ written = <<>>
    /\ fpc = "idle"
    /\ srcFault = [step |-> "none", at |-> <<>>, before |-> {}]

Init ==
    /\ OrchestratorInit
    /\ general \in GeneralOptions
    /\ NameIdle
    /\ BracketIdle
    /\ ExifIdle

----------------------------------------------------------------------------
(* QString, QChar *)

\* The characters that occur, in code point order (QChar's operator<).
CharOrder ==
    <<"%", "-", ".", "/", "0", "1", "2", "3", "4", "5", "6", "7", "8", "9", "C", "F", "G", "I", "M", "R", "[", "]", "_", "a", "b", "d", "f", "g", "i", "n", "o", "r", "t", "w", "x">>

Ord(c) == CHOOSE k \in 1..Len(CharOrder) : CharOrder[k] = c

\* name[pos] >= '0' && name[pos] <= '9'
IsDigit(c) == c \in {"0", "1", "2", "3", "4", "5", "6", "7", "8", "9"}

DigitValue(c) == Ord(c) - Ord("0")

\* s[p] for a 0-based p; "" when p is not a position of s
At(s, p) == IF p >= 0 /\ p < Len(s) THEN s[p + 1] ELSE ""

RECURSIVE LexLess(_, _)
\* QString operator<: code point by code point, a proper prefix first
LexLess(a, b) ==
    IF b = <<>> THEN FALSE
    ELSE IF a = <<>> THEN TRUE
    ELSE IF Head(a) = Head(b) THEN LexLess(Tail(a), Tail(b))
    ELSE Ord(Head(a)) < Ord(Head(b))

RECURSIVE LastIndexFrom(_, _, _)
LastIndexFrom(s, c, p) ==
    IF p < 0 THEN -1
    ELSE IF s[p + 1] = c THEN p
    ELSE LastIndexFrom(s, c, p - 1)

\* QString::lastIndexOf(c): 0-based, -1 when c does not occur
LastIndexOf(s, c) == LastIndexFrom(s, c, Len(s) - 1)

\* QString::mid(pos, n): n < 0 takes everything from pos
Mid(s, pos, n) ==
    IF n < 0 THEN SubSeq(s, pos + 1, Len(s))
    ELSE SubSeq(s, pos + 1, IF pos + n < Len(s) THEN pos + n ELSE Len(s))

\* QString::replace(index, len, after)
StrReplace(s, index, len, after) ==
    SubSeq(s, 1, index) \o after \o SubSeq(s, index + len + 1, Len(s))

IntMax == 2147483647

RECURSIVE ParseDigits(_, _, _)
\* Accumulates the digits with the sign applied; fits = FALSE once the value
\* leaves the range of int.
ParseDigits(ds, neg, acc) ==
    IF ds = <<>> THEN [fits |-> TRUE, val |-> acc]
    ELSE LET d == DigitValue(Head(ds))
         IN  IF neg
             THEN IF \/ acc < -(IntMax \div 10)
                     \/ (acc = -(IntMax \div 10) /\ d > (IntMax % 10) + 1)
                  THEN [fits |-> FALSE, val |-> 0]
                  ELSE ParseDigits(Tail(ds), neg, acc * 10 - d)
             ELSE IF \/ acc > IntMax \div 10
                     \/ (acc = IntMax \div 10 /\ d > IntMax % 10)
                  THEN [fits |-> FALSE, val |-> 0]
                  ELSE ParseDigits(Tail(ds), neg, acc * 10 + d)

\* QStringView::toInt() on an optional '-' and decimal digits: the value, or 0
\* when it does not fit an int.
ToInt(lit) ==
    LET neg == lit # <<>> /\ Head(lit) = "-"
        ds == IF neg THEN Tail(lit) ELSE lit
        r == ParseDigits(ds, neg, 0)
    IN  IF r.fits THEN r.val ELSE 0

----------------------------------------------------------------------------
(* FileNameManipulator *)

\* QFileInfo(name).fileName(): what follows the last '/'
getBaseName(name) == Mid(name, LastIndexOf(name, "/") + 1, -1)

\* QFileInfo(name).canonicalPath() of an absolute path, free of links, to an
\* existing file: what precedes the last '/', the root itself being "/".
getDirName(name) ==
    LET cut == LastIndexOf(name, "/")
    IN  IF cut <= 0 THEN <<"/">> ELSE Mid(name, 0, cut)

RECURSIVE InsertSorted(_, _)
InsertSorted(sorted, x) ==
    IF sorted = <<>> THEN <<x>>
    ELSE IF LexLess(x, Head(sorted)) THEN <<x>> \o sorted
    ELSE <<Head(sorted)>> \o InsertSorted(Tail(sorted), x)

RECURSIVE SortNames(_)
\* std::sort(names.begin(), names.end())
SortNames(ns) ==
    IF ns = <<>> THEN <<>>
    ELSE InsertSorted(SortNames(SubSeq(ns, 1, Len(ns) - 1)), ns[Len(ns)])

FileNamesUnsorted(paramNames) == paramNames

\* The constructor: the descriptors' file names, sorted.
FileNameManipulator(paramNames) == SortNames(paramNames)

\* adjustIndex: -1 for an index outside the names.
adjustIndex(fnm, i) ==
    LET j == IF i < 0 THEN Len(fnm) + i ELSE i
    IN  IF j < 0 \/ j >= Len(fnm) THEN -1 ELSE j

getInputBaseName(fnm, i) ==
    LET j == adjustIndex(fnm, i)
    IN  IF j = -1 THEN <<>> ELSE getBaseName(fnm[j + 1])

getInputBaseNameNoExt(fnm, i) ==
    LET name == getInputBaseName(fnm, i)
    IN  Mid(name, 0, LastIndexOf(name, "."))

getInputDirName(fnm, i) ==
    LET j == adjustIndex(fnm, i)
    IN  IF j = -1 THEN <<>> ELSE getDirName(fnm[j + 1])

RECURSIVE SkipDigitsBack(_, _)
\* while (pos >= 0 && name[pos] is a digit) pos--;
SkipDigitsBack(name, pos) ==
    IF pos >= 0 /\ IsDigit(name[pos + 1]) THEN SkipDigitsBack(name, pos - 1) ELSE pos

getInputNumberSuffix(fnm, i) ==
    LET name == getInputBaseNameNoExt(fnm, i)
        pos == SkipDigitsBack(name, Len(name) - 1)
    IN  Mid(name, pos + 1, -1)

----------------------------------------------------------------------------
(* ImageIO::replaceArguments *)

RECURSIVE DigitRun(_, _)
\* [0-9]+ from the 0-based position p: the number of digits matched
DigitRun(s, p) == IF IsDigit(At(s, p)) THEN 1 + DigitRun(s, p + 1) ELSE 0

\* i[fFdn]\[(-?[0-9]+)\] after a '%' at p: the length of capture 1, 0 for no match
IndexTokenAt(s, p) ==
    IF /\ At(s, p + 1) = "i"
       /\ At(s, p + 2) \in {"f", "F", "d", "n"}
       /\ At(s, p + 3) = "["
    THEN LET sign == IF At(s, p + 4) = "-" THEN 1 ELSE 0
             run == DigitRun(s, p + 4 + sign)
         IN  IF run > 0 /\ At(s, p + 4 + sign + run) = "]" THEN sign + run ELSE 0
    ELSE 0

OutputTokensAlways(outName) == TRUE

\* outFileName == "" selects the expression without o[fd]
OutputTokens(outName) == outName # <<>>

\* The expression tried at position p: "none" or the alternative that matches.
MatchAt(s, p, withOut) ==
    IF At(s, p) # "%" THEN "none"
    ELSE IF withOut /\ At(s, p + 1) = "o" /\ At(s, p + 2) \in {"f", "d"} THEN "o"
    ELSE IF IndexTokenAt(s, p) > 0 THEN "i"
    ELSE IF At(s, p + 1) = "%" THEN "%"
    ELSE "none"

RECURSIVE FindMatch(_, _, _)
\* re.match(result, offset): the first position >= offset with a match, -1 for none
FindMatch(s, offset, withOut) ==
    IF offset >= Len(s) THEN -1
    ELSE IF MatchAt(s, offset, withOut) # "none" THEN offset
    ELSE FindMatch(s, offset + 1, withOut)

PercentOffsetRescan(index) == index

\* offset = index + 1
PercentOffset(index) == index + 1

\* offset = index + replacement.length()
NextOffset(index, replacement) == index + Len(replacement)

\* The branch for an i token at index: the replacement text.
InputReplacement(fnm, s, index) ==
    LET caplen == IndexTokenAt(s, index)
        imageIndex == ToInt(SubSeq(s, index + 5, index + 4 + caplen))
        which == At(s, index + 2)
    IN  IF which = "f" THEN getInputBaseName(fnm, imageIndex)
        ELSE IF which = "F" THEN getInputBaseNameNoExt(fnm, imageIndex)
        ELSE IF which = "d" THEN getInputDirName(fnm, imageIndex)
        ELSE getInputNumberSuffix(fnm, imageIndex)

RECURSIVE ReplaceLoop(_, _, _, _)
\* The for loop: match from offset, replace in place, move offset past the
\* replacement.
ReplaceLoop(fnm, s, offset, outName) ==
    LET index == FindMatch(s, offset, OutputTokens(outName))
        kind == MatchAt(s, index, OutputTokens(outName))
    IN  IF index = -1 THEN s
        ELSE IF kind = "%"
        THEN ReplaceLoop(fnm, StrReplace(s, index, 2, <<"%">>),
                         PercentOffset(index), outName)
        ELSE IF kind = "o"
        THEN LET replacement == IF At(s, index + 2) = "f"
                                THEN getBaseName(outName)
                                ELSE getDirName(outName)
             IN  ReplaceLoop(fnm, StrReplace(s, index, 3, replacement),
                             NextOffset(index, replacement), outName)
        ELSE LET length == IndexTokenAt(s, index) + 5
                 replacement == InputReplacement(fnm, s, index)
             IN  ReplaceLoop(fnm, StrReplace(s, index, length, replacement),
                             NextOffset(index, replacement), outName)

replaceArguments(paramNames, pat, outName) ==
    ReplaceLoop(FileNameManipulator(paramNames), pat, 0, outName)

SinglePattern == <<"%", "i", "d", "[", "-", "1", "]", "/", "%", "i", "F", "[", "0", "]", ".", "d", "n", "g">>

MultiPattern == <<"%", "i", "d", "[", "-", "1", "]", "/", "%", "i", "F", "[", "0", "]", "-", "%", "i", "n", "[", "-", "1", "]", ".", "d", "n", "g">>

buildOutputFileName(paramNames) ==
    IF Len(paramNames) > 1
    THEN replaceArguments(paramNames, MultiPattern, <<>>)
    ELSE replaceArguments(paramNames, SinglePattern, <<>>)

----------------------------------------------------------------------------
(* Inputs of the resolver *)

MaxNames == 3        \* longest descriptor list handed to the filename index
MaxPieces == 2       \* pieces a pattern is put together from

Img12 == <<"/", "a", "/", "I", "M", "G", "_", "0", "0", "1", "2", ".", "C", "R", "2">>

Img05 == <<"/", "a", "/", "I", "M", "G", "_", "0", "0", "0", "5", ".", "C", "R", "2">>

TwoDots == <<"/", "b", "/", "r", ".", "t", ".", "r", "a", "w">>

NoExt7 == <<"/", "b", "/", "7">>

TokenName == <<"/", "a", "/", "%", "%", "%", "i", "f", "[", "0", "]", ".", "r", "a", "w">>

Paths == {Img12, Img05, TwoDots, NoExt7, TokenName}

\* Descriptor lists in any order, a file name more than once for a file of
\* several frames.
NameLists == UNION { [1..n -> Paths] : n \in 0..MaxNames }

ResolveNameLists ==
    { <<>>, <<TokenName>>, <<Img12, Img05>>, <<TwoDots, NoExt7, Img05>> }

OutNames == { <<>>, <<"/", "o", "/", "w", "%", "%", ".", "d", "n", "g">> }

Pieces ==
    { <<"%", "%">>, <<"%">>, <<"%", "i", "f", "[", "0", "]">>, <<"%", "i", "F", "[", "-", "1", "]">>, <<"%", "i", "n", "[", "1", "]">>, <<"%", "o", "f">>, <<"%", "o", "d">>,
      <<"%", "i", "x", "[", "0", "]">>, <<"%", "i", "f", "[", "]">>, <<"%", "i", "f", "[", "a", "]">>, <<"%", "i", "f", "[", "0">>, <<"i", "f", "[", "0", "]">>, <<"x">> }

RECURSIVE PatternsOf(_)
PatternsOf(n) ==
    IF n = 0 THEN { <<>> }
    ELSE PatternsOf(n - 1) \cup { a \o b : a \in PatternsOf(n - 1), b \in Pieces }

Patterns == PatternsOf(MaxPieces)

Kinds == {"f", "F", "d", "n"}

Literals ==
    { <<"0">>, <<"1">>, <<"2">>, <<"-", "1">>, <<"-", "2">>, <<"-", "4">>, <<"5">>, <<"0", "0", "7">>,
      <<"2", "1", "4", "7", "4", "8", "3", "6", "4", "7">>, <<"2", "1", "4", "7", "4", "8", "3", "6", "4", "8">>, <<"-", "2", "1", "4", "7", "4", "8", "3", "6", "4", "8">>, <<"-", "2", "1", "4", "7", "4", "8", "3", "6", "4", "9">>,
      <<"9", "9", "9", "9", "9", "9", "9", "9", "9", "9", "9">> }

IndexToken(kind, lit) == <<"%", "i", kind, "[">> \o lit \o <<"]">>

IndexPatterns == { IndexToken(k, l) : k \in Kinds, l \in Literals }

ResolverInit(nameLists, patterns, outs) ==
    /\ names \in nameLists
    /\ pattern \in patterns
    /\ outFileName \in outs
    /\ resolved = <<>>
    /\ rpc = "ready"

\* replaceArguments(pattern, outFileName) on the current descriptor list
Resolve ==
    /\ rpc = "ready"
    /\ resolved' = replaceArguments(names, pattern, outFileName)
    /\ rpc' = "done"
    /\ UNCHANGED <<names, pattern, outFileName>>
    /\ UNCHANGED notNameVars

\* buildOutputFileName() on the current descriptor list
BuildOutput ==
    /\ rpc = "ready"
    /\ pattern' = (IF Len(names) > 1 THEN MultiPattern ELSE SinglePattern)
    /\ resolved' = buildOutputFileName(names)
    /\ rpc' = "done"
    /\ UNCHANGED <<names, outFileName>>
    /\ UNCHANGED notNameVars

----------------------------------------------------------------------------
(* Launcher::automaticMerge: the name of the output file *)

\* QString::mid(position) with the default length: a position past the end
\* gives the empty string, a negative one the whole string
MidFrom(s, position) ==
    IF position > Len(s) THEN <<>>
    ELSE IF position < 0 THEN s
    ELSE SubSeq(s, position + 1, Len(s))

DngSuffix == <<".", "d", "n", "g">>

NeedsDngOnlyWithoutDot(fileName) == LastIndexOf(fileName, ".") < 0

\* the test that guards  setOptions.fileName += ".dng"
NeedsDng(fileName) ==
    LET extPos == LastIndexOf(fileName, ".")
    IN  \/ extPos > Len(fileName)
        \/ MidFrom(fileName, extPos) # DngSuffix

\* setOptions.fileName as automaticMerge hands it to save: a pattern given by
\* the user is resolved and gets its extension, an empty one is replaced by
\* the default name
OutputName(paramNames, userPattern) ==
    IF userPattern # <<>>
    THEN LET fileName == replaceArguments(paramNames, userPattern, <<>>)
         IN  IF NeedsDng(fileName) THEN fileName \o DngSuffix ELSE fileName
    ELSE buildOutputFileName(paramNames)

DngName == <<"/", "a", "/", "r", ".", "d", "n", "g">>

NamedLists == { <<>>, <<DngName>>, <<Img12, Img05>> }

ExtPieces == { <<"x">>, <<".">>, <<".", "d", "n", "g">>, <<".", "D", "N", "G">>, <<"d", "n", "g">>, <<".", "d", "n">>, <<"g">>,
               <<".", "t", "i", "f">>, <<"%", "i", "F", "[", "0", "]">>, <<"%", "i", "f", "[", "0", "]">>, <<"%", "i", "f", "[", "-", "1", "]">> }

RECURSIVE ExtPatternsOf(_)
ExtPatternsOf(n) ==
    IF n = 0 THEN { <<>> }
    ELSE ExtPatternsOf(n - 1) \cup { a \o b : a \in ExtPatternsOf(n - 1), b \in ExtPieces }

ExtPatterns == ExtPatternsOf(MaxPieces)

\* the naming part of one iteration of automaticMerge
NameOutput ==
    /\ rpc = "ready"
    /\ resolved' = OutputName(names, pattern)
    /\ rpc' = "done"
    /\ UNCHANGED <<names, pattern, outFileName>>
    /\ UNCHANGED notNameVars

InitName == LoadInit /\ BracketIdle /\ ExifIdle /\ ResolverInit(NamedLists, ExtPatterns, { <<>> })

NextName == NameOutput

SpecName == InitName /\ [][NextName]_vars

----------------------------------------------------------------------------
(* Launcher::automaticMerge: what follows each load, and ImageIO::save *)

InputPaths == <<Img12, Img05, TwoDots, NoExt7>>

\* options.fileNames[i]
InputPath(i) == InputPaths[(i % Len(InputPaths)) + 1]

\* RawParameters::fileName of a descriptor: the file it was decoded from; the
\* frames of a multi-frame file all carry the name of that one file
DescriptorName(b, params) ==
    IF b.numImages = 1 THEN InputPath(0) ELSE InputPath(params.item)

DescriptorNames(b, rp) == [k \in 1..Len(rp) |-> DescriptorName(b, rp[k])]

\* SaveOptions::fileName as given with -o, or empty
UserPatterns == { <<>>, <<"%", "i", "F", "[", "-", "1", "]">> }

\* the four reports of save
SaveReports ==
    << Report(0, "Rendering image"), Report(33, "Rendering preview"),
       Report(66, "Writing output"), Report(100, "Done writing!") >>

SaveDescriptorFront(rp) == rp[1]

\* RawParameters params = *rawParameters.back()
SaveDescriptor(rp) == rp[Len(rp)]

\* what a read through back() of an empty list yields
GarbageDescriptor == [item |-> -1, fmt |-> 0]

\* result < numImages * 2: the error is written to cerr; continue
MergeReport ==
    /\ pc = "returned"
    /\ result < options.numImages * 2
    /\ errors' = errors + 1
    /\ result' = 1
    /\ pc' = "reported"
    /\ UNCHANGED <<stack, rawParameters, options, loopI, error, failedImage,
                   decoded, ub, loads, general, mergeSet, stages,
                   canAlign, switches, saveParams>>
    /\ UNCHANGED <<pct, step, progress, mergeResult>>
    /\ UNCHANGED notLoadVars

\* the output name is settled and io.save(setOptions, progress) writes the
\* composed image with the descriptor at the back of the list
MergeSave ==
    /\ pc = "returned"
    /\ result >= options.numImages * 2
    /\ Len(rawParameters) > 0
    /\ \E pat \in UserPatterns :
        /\ pattern' = pat
        /\ names' = DescriptorNames(options, rawParameters)
        /\ resolved' = OutputName(DescriptorNames(options, rawParameters), pat)
    /\ saveParams' = << SaveDescriptor(rawParameters) >>
    /\ progress' = progress \o SaveReports
    /\ pc' = "saved"
    /\ UNCHANGED <<stack, rawParameters, options, loopI, error, failedImage,
                   result, decoded, ub, loads, general, mergeSet, stages,
                   canAlign, switches>>
    /\ UNCHANGED <<pct, step, mergeResult, errors>>
    /\ UNCHANGED <<outFileName, rpc, bracketVars, exifVars>>

\* the same with nothing in the descriptor list: *rawParameters.back() is
\* undefined behaviour; save dies there or goes on with whatever it read
MergeSaveEmpty ==
    /\ pc = "returned"
    /\ result >= options.numImages * 2
    /\ Len(rawParameters) = 0
    /\ \E pat \in UserPatterns :
        /\ pattern' = pat
        /\ names' = <<>>
        /\ resolved' = OutputName(<<>>, pat)
    /\ ub' = TRUE
    /\ \/ /\ pc' = "crashed"
          /\ progress' = Append(progress, Head(SaveReports))
          /\ UNCHANGED saveParams
       \/ /\ pc' = "saved"
          /\ progress' = progress \o SaveReports
          /\ saveParams' = << GarbageDescriptor >>
    /\ UNCHANGED <<stack, rawParameters, options, loopI, error, failedImage,
                   result, decoded, loads, general, mergeSet, stages, canAlign, switches>>
    /\ UNCHANGED <<pct, step, mergeResult, errors>>
    /\ UNCHANGED <<outFileName, rpc, bracketVars, exifVars>>

\* optionsSet is exhausted: return result, the variable declared before the
\* loop. Without --batch the list holds one set; with it, any number.
MergeReturn ==
    /\ pc \in {"start", "skipped", "reported", "saved"}
    /\ general.batch \/ pc # "start"
    /\ pc' = "exited"
    /\ UNCHANGED <<stack, rawParameters, options, loopI, error, failedImage,
                   result, decoded, ub, loads, general, mergeSet, stages,
                   canAlign, switches, saveParams>>
    /\ UNCHANGED <<pct, step, progress, mergeResult, errors>>
    /\ UNCHANGED notLoadVars

Next ==
    \/ MergePick
    \/ MergeSkip
    \/ LoadBegin
    \/ LoadDecodeFailure
    \/ LoadFormatMismatch
    \/ LoadInsert
    \/ LoadLoopEnd
    \/ LoadAbort
    \/ LoadProcess
    \/ LoadProcessEmpty
    \/ MergeReport
    \/ MergeSave
    \/ MergeSaveEmpty
    \/ MergeReturn

Spec == Init /\ [][Next]_vars

InitResolve == LoadInit /\ BracketIdle /\ ExifIdle /\ ResolverInit(ResolveNameLists, Patterns, OutNames)

NextResolve == Resolve

SpecResolve == InitResolve /\ [][NextResolve]_vars

InitIndex == LoadInit /\ BracketIdle /\ ExifIdle /\ ResolverInit(NameLists, IndexPatterns, { <<>> })

NextIndex == Resolve

SpecIndex == InitIndex /\ [][NextIndex]_vars

InitOutput == LoadInit /\ BracketIdle /\ ExifIdle /\ ResolverInit(NameLists, { <<>> }, { <<>> })

NextOutput == BuildOutput

SpecOutput == InitOutput /\ [][NextOutput]_vars

----------------------------------------------------------------------------
(* What the inputs of a call say, independently of how load walks them *)

\* Item k (0-based) cannot be ingested: it does not decode, or it decodes with
\* a format other than item 0's.
BadItem(items, k) ==
    \/ ~items[k + 1].good
    \/ items[k + 1].fmt # items[1].fmt

HasFailure(items) == \E k \in 0..(Len(items) - 1) : BadItem(items, k)

FirstFailure(items) ==
    CHOOSE k \in 0..(Len(items) - 1) :
        /\ BadItem(items, k)
        /\ \A j \in 0..(k - 1) : ~BadItem(items, j)

IndexSeq(n) == [p \in 1..n |-> p - 1]

Returned == pc = "returned"

----------------------------------------------------------------------------
(* C1: at every point of a load (after each insertion, and after a          *)
(* successful load) the descriptor list is as long as the stack and the     *)
(* descriptor at every position p is the one decoded together with the      *)
(* exposure the stack holds at p.                                           *)
C1_OrderMirroring ==
    /\ Len(rawParameters) = Len(stack)
    /\ \A p \in 1..Len(stack) :
        /\ rawParameters[p].item = stack[p]
        /\ rawParameters[p].fmt = options.items[stack[p] + 1].fmt

\* A successful load of three files that the stack did not keep in load order.
C1_Witness ==
    /\ Returned
    /\ error = 0
    /\ stack = <<2, 0, 1>>
    /\ Len(rawParameters) = 3

(* C2: the returned integer is >= 2n exactly when ingestion fully           *)
(* succeeded (n = number of input files); after a failure result >> 1 is    *)
(* the failing index and result & 1 is 1 for a format mismatch, 0 for a     *)
(* decode failure.                                                          *)
C2_ResultCodeEncoding ==
    Returned =>
        LET items == options.items
            n == options.numImages
        IN  /\ (result >= 2 * n) <=> ~HasFailure(items)
            /\ HasFailure(items) =>
                  /\ result \div 2 = FirstFailure(items)
                  /\ result % 2 =
                        (IF items[FirstFailure(items) + 1].good THEN 1 ELSE 0)

(* C3: when items 0..k-1 decode and are compatible and item k > 0 decodes   *)
(* with a format other than item 0's, load returns a format mismatch        *)
(* carrying k and leaves the stack and the descriptor list empty.           *)
C3_FormatMismatch ==
    (/\ Returned
     /\ HasFailure(options.items)
     /\ FirstFailure(options.items) > 0
     /\ options.items[FirstFailure(options.items) + 1].good)
    =>
        LET k == FirstFailure(options.items)
        IN  /\ error = 2
            /\ failedImage = k
            /\ result \div 2 = k
            /\ result % 2 = 1
            /\ Len(stack) = 0
            /\ Len(rawParameters) = 0

\* Two items were inserted, the third one mismatched.
C3_Witness ==
    /\ Returned
    /\ error = 2
    /\ failedImage = 2
    /\ options.items[3].fmt # options.items[1].fmt
    /\ stack = <<>>

(* C4: items are decoded strictly in the given order; at the first item k   *)
(* whose decoding fails load aborts with a decode failure carrying k,       *)
(* nothing after k is decoded or inserted, and a decode failure wins over   *)
(* a format mismatch of the same item.                                      *)
C4_DecodeFailure ==
    /\ decoded = IndexSeq(Len(decoded))
    /\ \A p \in 1..Len(stack) : stack[p] < Len(decoded)
    /\ (/\ pc \in {"after", "returned"}
        /\ HasFailure(options.items)
        /\ ~options.items[FirstFailure(options.items) + 1].good)
       =>
        LET k == FirstFailure(options.items)
        IN  /\ error = 1
            /\ failedImage = k
            /\ decoded = IndexSeq(k + 1)
            /\ \A p \in 1..Len(stack) : stack[p] < k
            /\ Returned => result \div 2 = k /\ result % 2 = 0

\* Item 1 neither decodes nor has item 0's format: reported as a decode failure.
C4_Witness ==
    /\ Returned
    /\ error = 1
    /\ failedImage = 1
    /\ options.items[2].fmt # options.items[1].fmt
    /\ options.numImages = 3

(* C5: after each load call on the same orchestrator returns, either the    *)
(* call failed and the stack and the descriptor list are empty, or it       *)
(* succeeded and they hold exactly the items of that call's batch.          *)
C5_NoPartialState ==
    Returned =>
        IF HasFailure(options.items)
        THEN stack = <<>> /\ rawParameters = <<>>
        ELSE /\ Len(options.items) = LoopLimit(options)
             /\ Len(stack) = LoopLimit(options)
             /\ Len(rawParameters) = LoopLimit(options)
             /\ \A k \in 0..(LoopLimit(options) - 1) :
                    /\ \E p \in 1..Len(stack) : stack[p] = k
                    /\ \E p \in 1..Len(rawParameters) : rawParameters[p].item = k

\* A second load on the same orchestrator that succeeded with two items.
C5_Witness ==
    /\ Returned
    /\ loads = 2
    /\ ~HasFailure(options.items)
    /\ Len(stack) = 2

(* C6: with exactly one input file whose probed frame count is outside      *)
(* [1,4], load decodes and inserts nothing and completes as a successful    *)
(* load of zero images without reading any descriptor.                      *)
C6_NoUsableFrames ==
    (/\ pc \in {"after", "returned", "crashed"}
     /\ options.numImages = 1
     /\ ~(options.frameCount > 0 /\ options.frameCount <= MaxFrames))
    =>
        /\ decoded = <<>>
        /\ stack = <<>>
        /\ rawParameters = <<>>
        /\ ~ub
        /\ pc # "crashed"
        /\ Returned => result = 2

----------------------------------------------------------------------------
(* What the resolver's grammar and the filename index say, stated on the   *)
(* pattern and the names themselves                                        *)

Digits == {"0", "1", "2", "3", "4", "5", "6", "7", "8", "9"}

\* a is before b in the order of code points
LexBefore(a, b) ==
    \E k \in 0..Len(a) :
        /\ k <= Len(b)
        /\ \A m \in 1..k : a[m] = b[m]
        /\ IF k = Len(a) THEN k < Len(b)
           ELSE k < Len(b) /\ Ord(a[k + 1]) < Ord(b[k + 1])

\* The sorted view of a list: the permutation of it that is in order.
SortedView(ns) ==
    CHOOSE s \in [1..Len(ns) -> {ns[k] : k \in 1..Len(ns)}] :
        /\ \A x \in {ns[k] : k \in 1..Len(ns)} :
              Cardinality({k \in 1..Len(ns) : ns[k] = x}) =
              Cardinality({k \in 1..Len(ns) : s[k] = x})
        /\ \A k \in 1..(Len(ns) - 1) : s[k] = s[k + 1] \/ LexBefore(s[k], s[k + 1])

\* Positions (1-based) of c in s
Occurrences(s, c) == {k \in 1..Len(s) : s[k] = c}

Last(S) == CHOOSE k \in S : \A m \in S : m <= k

BaseOf(path) ==
    IF Occurrences(path, "/") = {} THEN path
    ELSE SubSeq(path, Last(Occurrences(path, "/")) + 1, Len(path))

DirOf(path) ==
    IF Last(Occurrences(path, "/")) = 1 THEN <<"/">>
    ELSE SubSeq(path, 1, Last(Occurrences(path, "/")) - 1)

StemOf(base) ==
    IF Occurrences(base, ".") = {} THEN base
    ELSE SubSeq(base, 1, Last(Occurrences(base, ".")) - 1)

\* The maximal run of digits that ends s
DigitSuffix(s) ==
    LET n == CHOOSE k \in 0..Len(s) :
                /\ \A m \in (Len(s) - k + 1)..Len(s) : s[m] \in Digits
                /\ k < Len(s) => s[Len(s) - k] \notin Digits
    IN  SubSeq(s, Len(s) - n + 1, Len(s))

QueryOf(kind, path) ==
    IF kind = "f" THEN BaseOf(path)
    ELSE IF kind = "F" THEN StemOf(BaseOf(path))
    ELSE IF kind = "d" THEN DirOf(path)
    ELSE DigitSuffix(StemOf(BaseOf(path)))

IsSignedDecimal(b) ==
    LET ds == IF b # <<>> /\ b[1] = "-" THEN Tail(b) ELSE b
    IN  ds # <<>> /\ \A k \in 1..Len(ds) : ds[k] \in Digits

\* t is a token of the grammar
IsToken(t, haveOut) ==
    \/ t = <<"%", "%">>
    \/ haveOut /\ t \in { <<"%", "o", "f">>, <<"%", "o", "d">> }
    \/ /\ Len(t) >= 6
       /\ t[1] = "%" /\ t[2] = "i" /\ t[3] \in Kinds /\ t[4] = "["
       /\ t[Len(t)] = "]"
       /\ IsSignedDecimal(SubSeq(t, 5, Len(t) - 1))

\* Lengths of the tokens that start at the 0-based position p of s
TokenLengths(s, p, haveOut) ==
    {n \in 2..(Len(s) - p) : IsToken(SubSeq(s, p + 1, p + n), haveOut)}

NoTokenIn(s, haveOut) ==
    \A p \in 0..(Len(s) - 1) : TokenLengths(s, p, haveOut) = {}

RECURSIVE LeadingZeros(_)
LeadingZeros(ds) ==
    IF ds # <<>> /\ Head(ds) = "0" THEN 1 + LeadingZeros(Tail(ds)) ELSE 0

RECURSIVE SmallValue(_)
SmallValue(ds) ==
    IF ds = <<>> THEN 0
    ELSE SmallValue(SubSeq(ds, 1, Len(ds) - 1)) * 10 + DigitValue(ds[Len(ds)])

\* The integer a literal denotes, when it has at most nine significant
\* digits; "far" marks a literal of ten or more, whose magnitude is beyond
\* every count of names.
Denoted(lit) ==
    LET neg == lit[1] = "-"
        ds == IF neg THEN Tail(lit) ELSE lit
        sig == SubSeq(ds, LeadingZeros(ds) + 1, Len(ds))
    IN  IF Len(sig) > 9 THEN [far |-> TRUE, val |-> 0]
        ELSE [far |-> FALSE,
              val |-> IF neg THEN 0 - SmallValue(sig) ELSE SmallValue(sig)]

\* What kind[lit] resolves to over the names, by the index rules.
IndexRule(ns, kind, lit) ==
    LET d == Denoted(lit)
        count == Len(ns)
        j == IF d.val < 0 THEN count + d.val ELSE d.val
    IN  IF d.far \/ j < 0 \/ j >= count THEN <<>>
        ELSE QueryOf(kind, SortedView(ns)[j + 1])

RECURSIVE Streamed(_, _, _, _)
\* The pattern read once from left to right: a token gives its replacement and
\* reading goes on behind the token, any other character is copied.
Streamed(ns, pat, p, outName) ==
    IF p >= Len(pat) THEN <<>>
    ELSE LET lens == TokenLengths(pat, p, outName # <<>>)
         IN  IF lens = {} THEN <<pat[p + 1]>> \o Streamed(ns, pat, p + 1, outName)
             ELSE LET n == CHOOSE x \in lens : TRUE
                      t == SubSeq(pat, p + 1, p + n)
                      text == IF t[2] = "%" THEN <<"%">>
                              ELSE IF t[2] = "o"
                              THEN (IF t[3] = "f" THEN BaseOf(outName) ELSE DirOf(outName))
                              ELSE InputReplacement(SortedView(ns), pat, p)
                  IN  text \o Streamed(ns, pat, p + n, outName)

Done == rpc = "done"

----------------------------------------------------------------------------
(* C7: a negative index i is resolved as count + i and every query gives   *)
(* the empty string when the adjusted index is outside [0, count); a       *)
(* literal of any magnitude that is out of range gives the empty string.   *)
C7_IndexResolution ==
    (Done /\ pattern \in IndexPatterns) =>
        resolved = IndexRule(names, pattern[3], SubSeq(pattern, 5, Len(pattern) - 1))

(* C8: replaceArguments replaces tokens from left to right and never reads *)
(* substituted text again: the result is the pattern read once, %% gives a *)
(* literal % that starts no token, and a file name holding token text is   *)
(* emitted as it is.                                                       *)
C8_NoRescan ==
    Done =>
        /\ resolved = Streamed(names, pattern, 0, outFileName)
        /\ pattern = <<"%", "%", "i", "f", "[", "0", "]">> => resolved = <<"%", "i", "f", "[", "0", "]">>
        /\ (pattern = <<"%", "i", "f", "[", "0", "]">> /\ names = <<TokenName>>)
              => resolved = <<"%", "%", "%", "i", "f", "[", "0", "]", ".", "r", "a", "w">>
        /\ (pattern = <<"%", "o", "f">> /\ outFileName # <<>>) => resolved = <<"w", "%", "%", ".", "d", "n", "g">>

\* %%if[0] over a list with a name at index 0 stays the literal %if[0].
C8_Witness ==
    /\ Done
    /\ pattern = <<"%", "%", "i", "f", "[", "0", "]">>
    /\ names = <<TokenName>>
    /\ resolved = <<"%", "i", "f", "[", "0", "]">>

\* A pattern made of sequences outside the grammar.
Malformed ==
    { <<"%">>, <<"%", "i", "x", "[", "0", "]">>, <<"%", "i", "f", "[", "]">>, <<"%", "i", "f", "[", "a", "]">>, <<"%", "i", "f", "0", "]">>, <<"%", "i", "f", "[", "0">> }

(* C9: every %-sequence outside the token grammar (unknown letter, missing, *)
(* empty or non-numeric index, missing bracket) is in the result as it was, *)
(* and %of / %od are replaced only when an output file name is given.       *)
C9_Verbatim ==
    Done =>
        /\ NoTokenIn(pattern, outFileName # <<>>) => resolved = pattern
        /\ \A m \in Malformed :
              (\A p \in 0..(Len(m) - 1) :
                    TokenLengths(m \o pattern, p, outFileName # <<>>) = {})
              => replaceArguments(names, m \o pattern, outFileName) = m \o resolved
        /\ (pattern \in { <<"%", "o", "f">>, <<"%", "o", "d">> } /\ outFileName = <<>>)
              => resolved = pattern
        /\ (pattern = <<"%", "o", "d">> /\ outFileName # <<>>) => resolved = <<"/", "o">>

\* %of next to an empty index, no output file name: both stay.
C9_Witness ==
    /\ Done
    /\ pattern = <<"%", "o", "f", "%", "i", "f", "[", "]">>
    /\ outFileName = <<>>
    /\ names = <<Img12, Img05>>
    /\ resolved = pattern

----------------------------------------------------------------------------
(* Launcher::getBracketedSets *)

MaxSetFiles == 3     \* largest number of input files of one batch-mode run

\* what LibRaw reports for a file: whether open_file succeeds, the capture
\* timestamp (seconds) and the shutter duration (seconds)
Timestamps == {0, 2, 6, 300}
Shutters == {0, 1}
Gaps == {0, 1, 5}

FileInfo ==
    [open : {TRUE}, timestamp : Timestamps, shutter : Shutters]
        \cup { [open |-> FALSE, timestamp |-> 0, shutter |-> 0] }

FileLists == UNION { [1..n -> FileInfo] : n \in 0..MaxSetFiles }

\* ImageIO::getImageCreationInterval: end is the timestamp, start lies the
\* shutter duration before it; both stay null when the file cannot be opened
getImageCreationInterval(f) ==
    IF f.open
    THEN [valid |-> TRUE, start |-> f.timestamp - f.shutter, end |-> f.timestamp]
    ELSE [valid |-> FALSE, start |-> 0, end |-> 0]

\* a default-constructed QDateInterval
NullInterval == [valid |-> FALSE, start |-> 0, end |-> 0]

\* QDateInterval::difference: the seconds between the end of this interval
\* and the start of the other
difference(last, other) == other.start - last.end

\* QDateInterval::operator<
IntervalLess(a, b) ==
    \/ a.start < b.start
    \/ a.start = b.start /\ a.end < b.end

\* std::pair::operator< on (interval, name); the name of a file is ordered as
\* its position in fileNames
PairLess(p, q) ==
    \/ IntervalLess(p.first, q.first)
    \/ ~IntervalLess(q.first, p.first) /\ p.second < q.second

RECURSIVE InsertPair(_, _)
InsertPair(p, sorted) ==
    IF sorted = <<>> THEN <<p>>
    ELSE IF PairLess(p, Head(sorted)) THEN <<p>> \o sorted
    ELSE <<Head(sorted)>> \o InsertPair(p, Tail(sorted))

\* dateNames.sort()
RECURSIVE SortPairs(_)
SortPairs(list) ==
    IF list = <<>> THEN <<>>
    ELSE InsertPair(Head(list), SortPairs(Tail(list)))

\* the first loop: files with a start date go to dateNames, every other file
\* becomes a set of its own
RECURSIVE Undated(_, _)
Undated(files, k) ==
    IF k > Len(files) THEN <<>>
    ELSE IF getImageCreationInterval(files[k]).valid THEN Undated(files, k + 1)
    ELSE << <<k>> >> \o Undated(files, k + 1)

RECURSIVE DateNames(_, _)
DateNames(files, k) ==
    IF k > Len(files) THEN <<>>
    ELSE IF getImageCreationInterval(files[k]).valid
    THEN << [first |-> getImageCreationInterval(files[k]), second |-> k] >>
             \o DateNames(files, k + 1)
    ELSE DateNames(files, k + 1)

GapExceedsOrEquals(last, other, gap) == difference(last, other) >= gap

\* lastInterval.difference(dateName.first) > generalOptions.batchGap
GapExceeds(last, other, gap) == difference(last, other) > gap

\* result.back().fileNames.push_back(name)
PushToBack(res, name) ==
    [res EXCEPT ![Len(res)] = Append(res[Len(res)], name)]

\* the second loop, from element k of the sorted dateNames on
RECURSIVE BracketLoop(_, _, _, _, _)
BracketLoop(dateNames, k, res, lastInterval, gap) ==
    IF k > Len(dateNames) THEN res
    ELSE LET dateName == dateNames[k]
             opened == IF \/ ~lastInterval.valid
                          \/ GapExceeds(lastInterval, dateName.first, gap)
                       THEN Append(res, <<>>)
                       ELSE res
         IN  BracketLoop(dateNames, k + 1, PushToBack(opened, dateName.second),
                         dateName.first, gap)

getBracketedSets(files, gap) ==
    BracketLoop(SortPairs(DateNames(files, 1)), 1, Undated(files, 1),
                NullInterval, gap)

BracketInit ==
    /\ fileList \in FileLists
    /\ batchGap \in Gaps
    /\ sets = <<>>
    /\ bpc = "ready"

\* one call of getBracketedSets
GetBracketedSets ==
    /\ bpc = "ready"
    /\ sets' = getBracketedSets(fileList, batchGap)
    /\ bpc' = "done"
    /\ UNCHANGED <<fileList, batchGap>>
    /\ UNCHANGED notBracketVars

InitBracket == LoadInit /\ NameIdle /\ ExifIdle /\ BracketInit

NextBracket == GetBracketedSets

SpecBracket == InitBracket /\ [][NextBracket]_vars

----------------------------------------------------------------------------
(* ExifTransfer::copyMetadata *)

MaxEntries == 2      \* most entries one image holds over its three namespaces

\* A key is its group name (a string of characters) and its tag name; the
\* family (Exif, Xmp, Iptc) is the container the key lives in. A container is
\* a function from the keys it holds to their values.

\* findKey(key) != end()
Has(data, key) == key \in DOMAIN data

\* data[key] = value, and add(datum) of a key the container lacks
Put(data, key, value) ==
    [k \in (DOMAIN data) \cup {key} |-> IF k = key THEN value ELSE data[k]]

\* std::string::substr(0, n)
Substr0(s, n) == SubSeq(s, 1, IF n < Len(s) THEN n ELSE Len(s))

TiffGroup == <<"t", "i", "f", "f">>

\* the entries of src under the keys in allowed are added to dst unless dst
\* holds their key
AddMissing(src, dst, allowed) ==
    LET new == { k \in DOMAIN src : k \in allowed /\ ~Has(dst, k) }
    IN  [k \in (DOMAIN dst) \cup new |-> IF Has(dst, k) THEN dst[k] ELSE src[k]]

NotTiff(k) == k.group # TiffGroup

copyXMPOverwrite(src, dst) ==
    [k \in (DOMAIN dst) \cup { x \in DOMAIN src : NotTiff(x) } |->
        IF Has(src, k) /\ NotTiff(k) THEN src[k] ELSE dst[k]]

\* ExifTransfer::copyXMP
copyXMP(src, dst) ==
    AddMissing(src, dst, { k \in DOMAIN src : NotTiff(k) })

copyIPTCOneOnly(src, dst) ==
    LET new == { k \in DOMAIN src : ~Has(dst, k) }
    IN  IF new = {} THEN dst
        ELSE LET one == CHOOSE k \in new : TRUE IN Put(dst, one, src[one])

\* ExifTransfer::copyIPTC
copyIPTC(src, dst) == AddMissing(src, dst, DOMAIN src)

previewKeys ==
    { [group |-> <<"O", "l", "y", "m", "p", "u", "s", "C", "s">>, tag |-> "PreviewImageStart"],
      [group |-> <<"O", "l", "y", "m", "p", "u", "s", "C", "s">>, tag |-> "PreviewImageLength"],
      [group |-> <<"T", "h", "u", "m", "b", "n", "a", "i", "l">>, tag |-> "JPEGInterchangeFormat"],
      [group |-> <<"T", "h", "u", "m", "b", "n", "a", "i", "l">>, tag |-> "JPEGInterchangeFormatLength"],
      [group |-> <<"N", "i", "k", "o", "n", "P", "r", "e", "v", "i", "e", "w">>, tag |-> "JPEGInterchangeFormat"],
      [group |-> <<"N", "i", "k", "o", "n", "P", "r", "e", "v", "i", "e", "w">>, tag |-> "JPEGInterchangeFormatLength"],
      [group |-> <<"P", "e", "n", "t", "a", "x">>, tag |-> "PreviewOffset"],
      [group |-> <<"P", "e", "n", "t", "a", "x">>, tag |-> "PreviewLength"],
      [group |-> <<"P", "e", "n", "t", "a", "x", "D", "n", "g">>, tag |-> "PreviewOffset"],
      [group |-> <<"P", "e", "n", "t", "a", "x", "D", "n", "g">>, tag |-> "PreviewLength"],
      [group |-> <<"M", "i", "n", "o", "l", "t", "a">>, tag |-> "ThumbnailOffset"],
      [group |-> <<"M", "i", "n", "o", "l", "t", "a">>, tag |-> "ThumbnailLength"],
      [group |-> <<"S", "o", "n", "y", "M", "i", "n", "o", "l", "t", "a">>, tag |-> "ThumbnailOffset"],
      [group |-> <<"S", "o", "n", "y", "M", "i", "n", "o", "l", "t", "a">>, tag |-> "ThumbnailLength"],
      [group |-> <<"O", "l", "y", "m", "p", "u", "s">>, tag |-> "ThumbnailImage"],
      [group |-> <<"O", "l", "y", "m", "p", "u", "s", "2">>, tag |-> "ThumbnailImage"],
      [group |-> <<"M", "i", "n", "o", "l", "t", "a">>, tag |-> "Thumbnail"],
      [group |-> <<"P", "a", "n", "a", "s", "o", "n", "i", "c", "R", "a", "w">>, tag |-> "PreviewImage"],
      [group |-> <<"S", "a", "m", "s", "u", "n", "g", "P", "r", "e", "v", "i", "e", "w">>, tag |-> "JPEGInterchangeFormat"],
      [group |-> <<"S", "a", "m", "s", "u", "n", "g", "P", "r", "e", "v", "i", "e", "w">>, tag |-> "JPEGInterchangeFormatLength"] }

ThumbPrefix == <<"T", "h", "u", "m", "b">>
SubThumbPrefix == <<"S", "u", "b", "T", "h", "u", "m", "b">>
ImagePrefix == <<"I", "m", "a", "g", "e">>
SubImagePrefix == <<"S", "u", "b", "I", "m", "a", "g", "e">>

excludeOnlyPreviewKeys(key) == key \in previewKeys

\* excludeExifDatum(datum)
excludeExifDatum(key) ==
    \/ key \in previewKeys
    \/ Substr0(key.group, 5) = ThumbPrefix
    \/ Substr0(key.group, 8) = SubThumbPrefix
    \/ Substr0(key.group, 5) = ImagePrefix
    \/ Substr0(key.group, 8) = SubImagePrefix

includeImageKeys ==
    { [group |-> <<"I", "m", "a", "g", "e">>, tag |-> "Make"],
      [group |-> <<"I", "m", "a", "g", "e">>, tag |-> "Model"],
      [group |-> <<"I", "m", "a", "g", "e">>, tag |-> "Artist"],
      [group |-> <<"I", "m", "a", "g", "e">>, tag |-> "Copyright"],
      [group |-> <<"I", "m", "a", "g", "e">>, tag |-> "DNGPrivateData"],
      [group |-> <<"S", "u", "b", "I", "m", "a", "g", "e", "1">>, tag |-> "OpcodeList1"],
      [group |-> <<"S", "u", "b", "I", "m", "a", "g", "e", "1">>, tag |-> "OpcodeList2"],
      [group |-> <<"S", "u", "b", "I", "m", "a", "g", "e", "1">>, tag |-> "OpcodeList3"] }

NewSubfileType == [group |-> <<"S", "u", "b", "I", "m", "a", "g", "e", "1">>, tag |-> "NewSubfileType"]

\* the value 0 of NewSubfileType: primary image
Primary == "0"

ForceCopyIfAbsent(src, dst) ==
    LET new == { k \in includeImageKeys : Has(src, k) /\ ~Has(dst, k) }
    IN  [k \in (DOMAIN dst) \cup new |-> IF k \in new THEN src[k] ELSE dst[k]]

\* the first loop of copyEXIF: dstExif[keyName] = *iterator
ForceCopy(src, dst) ==
    LET found == { k \in includeImageKeys : Has(src, k) }
    IN  [k \in (DOMAIN dst) \cup found |-> IF k \in found THEN src[k] ELSE dst[k]]

\* dstExif["Exif.SubImage1.NewSubfileType"] = 0
SetPrimary(dst) == Put(dst, NewSubfileType, Primary)

\* ExifTransfer::copyEXIF
copyEXIF(src, dst) ==
    AddMissing(src, SetPrimary(ForceCopy(src, dst)),
               { k \in DOMAIN src : ~excludeExifDatum(k) })

SourceIgnored(dst) == dst

\* the catch block of a source that cannot be opened or read
SourceUnreadable(dst) == [dst EXCEPT !.exif = SetPrimary(dst.exif)]

\* the entries of data under the keys in S
Restrict(data, S) == [k \in (DOMAIN data) \cap S |-> data[k]]

\* includeImageKeys in the order of the array
includeImageOrder ==
    << [group |-> <<"I", "m", "a", "g", "e">>, tag |-> "Make"],
       [group |-> <<"I", "m", "a", "g", "e">>, tag |-> "Model"],
       [group |-> <<"I", "m", "a", "g", "e">>, tag |-> "Artist"],
       [group |-> <<"I", "m", "a", "g", "e">>, tag |-> "Copyright"],
       [group |-> <<"I", "m", "a", "g", "e">>, tag |-> "DNGPrivateData"],
       [group |-> <<"S", "u", "b", "I", "m", "a", "g", "e", "1">>, tag |-> "OpcodeList1"],
       [group |-> <<"S", "u", "b", "I", "m", "a", "g", "e", "1">>, tag |-> "OpcodeList2"],
       [group |-> <<"S", "u", "b", "I", "m", "a", "g", "e", "1">>, tag |-> "OpcodeList3"] >>

\* the keys the first loop of copyEXIF handled before it reached key
EarlierForced(key) ==
    LET at == CHOOSE j \in 1..Len(includeImageOrder) : includeImageOrder[j] = key
    IN  { includeImageOrder[j] : j \in 1..(at - 1) }

\* An Exiv2::Error thrown between src->readMetadata() and the end of
\* copyEXIF: the step it leaves ("xmp", "iptc", "force" for the first loop of
\* copyEXIF, "exif" for its last loop), the datum it is thrown at and the
\* source data the step handled before. No error: "none".
NoFault == [step |-> "none", at |-> <<>>, before |-> {}]

\* The errors a source can raise. A loop throws where it builds the key of a
\* datum or assigns it, so never at a datum it skips.
Faults(src) ==
    {NoFault}
    \cup { [step |-> "xmp", at |-> <<f>>, before |-> S] :
             f \in { k \in DOMAIN src.xmp : NotTiff(k) },
             S \in SUBSET (DOMAIN src.xmp) }
    \cup { [step |-> "iptc", at |-> <<f>>, before |-> S] :
             f \in DOMAIN src.iptc, S \in SUBSET (DOMAIN src.iptc) }
    \cup { [step |-> "force", at |-> <<f>>, before |-> EarlierForced(f)] :
             f \in (DOMAIN src.exif) \cap includeImageKeys }
    \cup { [step |-> "exif", at |-> <<f>>, before |-> S] :
             f \in { k \in DOMAIN src.exif : ~excludeExifDatum(k) },
             S \in SUBSET (DOMAIN src.exif) }

\* a fault of the source: the data handled before exclude the one thrown at
IsFault(src, fault) ==
    /\ fault \in Faults(src)
    /\ fault.step # "none" => fault.at[1] \notin fault.before

InterruptedIsolated(src, dst, fault) ==
    [xmp |-> copyXMP(IF fault.step = "xmp" THEN Restrict(src.xmp, fault.before)
                     ELSE src.xmp, dst.xmp),
     iptc |-> copyIPTC(IF fault.step = "iptc" THEN Restrict(src.iptc, fault.before)
                       ELSE src.iptc, dst.iptc),
     exif |-> copyEXIF(IF fault.step \in {"force", "exif"}
                       THEN Restrict(src.exif, fault.before \cup includeImageKeys)
                       ELSE src.exif, dst.exif)]

\* The second try block left by an error of a copy step: the steps before it
\* ran to their end, the step itself handled the data before the one it threw
\* at, the steps after it did not run, and the catch block sets the flag.
Interrupted(src, dst, fault) ==
    [xmp |-> IF fault.step = "xmp"
             THEN copyXMP(Restrict(src.xmp, fault.before), dst.xmp)
             ELSE copyXMP(src.xmp, dst.xmp),
     iptc |-> IF fault.step = "xmp" THEN dst.iptc
              ELSE IF fault.step = "iptc"
              THEN copyIPTC(Restrict(src.iptc, fault.before), dst.iptc)
              ELSE copyIPTC(src.iptc, dst.iptc),
     exif |-> IF fault.step \in {"xmp", "iptc"} THEN SetPrimary(dst.exif)
              ELSE IF fault.step = "force"
              THEN SetPrimary(ForceCopy(Restrict(src.exif, fault.before), dst.exif))
              ELSE SetPrimary(copyEXIF(Restrict(src.exif, fault.before \cup includeImageKeys),
                                       dst.exif))]

\* the in-memory metadata of the destination when copyMetadata reaches its
\* last try block (or returns because the destination cannot be read)
FusedMetadata(src, dst, sOk, dOk, fault) ==
    IF ~dOk THEN dst
    ELSE IF ~sOk THEN SourceUnreadable(dst)
    ELSE IF fault.step = "none"
    THEN [xmp |-> copyXMP(src.xmp, dst.xmp),
          iptc |-> copyIPTC(src.iptc, dst.iptc),
          exif |-> copyEXIF(src.exif, dst.exif)]
    ELSE Interrupted(src, dst, fault)

\* The keys the inputs are built from
XmpKeys ==
    { [group |-> <<"t", "i", "f", "f">>, tag |-> "Orientation"],
      [group |-> <<"d", "c">>, tag |-> "creator"] }
IptcKeys ==
    { [group |-> <<"A", "p", "p", "l", "i", "c", "a", "t", "i", "o", "n", "2">>, tag |-> "Byline"],
      [group |-> <<"A", "p", "p", "l", "i", "c", "a", "t", "i", "o", "n", "2">>, tag |-> "Caption"] }
ExifKeys ==
    { [group |-> <<"I", "m", "a", "g", "e">>, tag |-> "Make"],
      [group |-> <<"S", "u", "b", "I", "m", "a", "g", "e", "1">>, tag |-> "NewSubfileType"],
      [group |-> <<"P", "e", "n", "t", "a", "x">>, tag |-> "PreviewOffset"],
      [group |-> <<"T", "h", "u", "m", "b", "n", "a", "i", "l">>, tag |-> "Compression"],
      [group |-> <<"S", "u", "b", "T", "h", "u", "m", "b", "1">>, tag |-> "Compression"],
      [group |-> <<"I", "m", "a", "g", "e">>, tag |-> "Orientation"],
      [group |-> <<"S", "u", "b", "I", "m", "a", "g", "e", "2">>, tag |-> "ImageWidth"],
      [group |-> <<"P", "h", "o", "t", "o">>, tag |-> "ExposureTime"] }

Tagged ==
    { [ns |-> "xmp", key |-> k] : k \in XmpKeys }
        \cup { [ns |-> "iptc", key |-> k] : k \in IptcKeys }
        \cup { [ns |-> "exif", key |-> k] : k \in ExifKeys }

KeySets == { K \in SUBSET Tagged : Cardinality(K) <= MaxEntries }

KeysIn(K, ns) == { t.key : t \in { x \in K : x.ns = ns } }

\* the image that holds the keys K, each with value v
MetaOf(K, v) ==
    [xmp |-> [k \in KeysIn(K, "xmp") |-> v],
     iptc |-> [k \in KeysIn(K, "iptc") |-> v],
     exif |-> [k \in KeysIn(K, "exif") |-> v]]

\* Exif::transfer(srcFile, dstFile, data, dataSize) is about to be called. A
\* source file that cannot be read may still hold metadata; destination data
\* that cannot be read gives no image in memory.
ExifInit ==
    /\ srcOk \in BOOLEAN
    /\ dstOk \in BOOLEAN
    /\ \E K \in KeySets : srcMeta = MetaOf(K, "s")
    /\ \E K \in KeySets : dstMeta = (IF dstOk THEN MetaOf(K, "d") ELSE NoMeta)
    /\ dstBefore = NoMeta
    /\ persist = "none"
    /\ written = <<>>
    /\ fpc = "ready"
    /\ srcFault = NoFault

\* one call of copyMetadata; a second call takes what the first left as its
\* destination. Writing the file may fail, which is only reported.
CopyMetadata ==
    /\ fpc \in {"ready", "fused"}
    /\ dstBefore' = dstMeta
    /\ \E fault \in (IF fpc = "fused" THEN {srcFault}
                     ELSE IF srcOk /\ dstOk
                     THEN { f \in Faults(srcMeta) : IsFault(srcMeta, f) }
                     ELSE {NoFault}) :
        /\ srcFault' = fault
        /\ dstMeta' = FusedMetadata(srcMeta, dstMeta, srcOk, dstOk, fault)
        /\ IF dstOk
           THEN \E ok \in BOOLEAN :
                   /\ persist' = (IF ok THEN "written" ELSE "failed")
                   /\ written' =
                         (IF ok
                          THEN << FusedMetadata(srcMeta, dstMeta, srcOk, dstOk, fault) >>
                          ELSE written)
           ELSE /\ persist' = "none"
                /\ UNCHANGED written
    /\ fpc' = (IF fpc = "ready" THEN "fused" ELSE "refused")
    /\ UNCHANGED <<srcMeta, srcOk, dstOk>>
    /\ UNCHANGED notExifVars

InitExif == LoadInit /\ NameIdle /\ BracketIdle /\ ExifInit

NextExif == CopyMetadata

SpecExif == InitExif /\ [][NextExif]_vars


----------------------------------------------------------------------------
(* Claims about Launcher::automaticMerge and Launcher::getBracketedSets *)

\* s ends with the characters of suffix
EndsWith(s, suffix) ==
    /\ Len(s) >= Len(suffix)
    /\ \A k \in 1..Len(suffix) : s[Len(s) - Len(suffix) + k] = suffix[k]

\* C11: for every output pattern the user supplies, the final output name
\* ends in ".dng", and ".dng" is appended exactly when the resolved name does
\* not already end in ".dng" (compared case-sensitively).
C11_ExtensionRule ==
    (Done /\ pattern # <<>>) =>
        LET r == replaceArguments(names, pattern, <<>>)
        IN  /\ EndsWith(resolved, DngSuffix)
            /\ EndsWith(r, DngSuffix) => resolved = r
            /\ ~EndsWith(r, DngSuffix) => resolved = r \o DngSuffix

C11_Witness ==
    /\ Done
    /\ pattern = <<"x", ".", "D", "N", "G">>
    /\ resolved = <<"x", ".", "D", "N", "G", ".", "d", "n", "g">>

RECURSIVE Flatten(_)
Flatten(seqs) ==
    IF seqs = <<>> THEN <<>> ELSE Head(seqs) \o Flatten(Tail(seqs))

StartOf(i) == fileList[i].timestamp - fileList[i].shutter
EndOf(i) == fileList[i].timestamp
IsDated(i) == fileList[i].open
IsDatedSet(set) == set # <<>> /\ IsDated(set[1])

\* the number of files in the first m sets
RECURSIVE SizeUpTo(_, _)
SizeUpTo(seqs, m) ==
    IF m = 0 THEN 0 ELSE Len(seqs[m]) + SizeUpTo(seqs, m - 1)

ExampleFiles ==
    << [open |-> TRUE, timestamp |-> 0, shutter |-> 0],
       [open |-> TRUE, timestamp |-> 2, shutter |-> 0],
       [open |-> TRUE, timestamp |-> 300, shutter |-> 0] >>

\* C12: the sets returned partition the inputs; an input without a valid
\* creation interval is a set of its own that no dated input joins; the
\* dated inputs, in creation-interval order, are cut into sets exactly where
\* the gap from the previous interval's end to the current interval's start
\* exceeds batchGap (starts 0 s, 2 s, 300 s with batchGap 5 give sets of
\* sizes 2 and 1).
C12_BatchGrouping ==
    bpc = "done" =>
        LET n == Len(fileList)
            all == Flatten(sets)
            datedSets == SelectSeq(sets, IsDatedSet)
            cat == Flatten(datedSets)
            CutAfter(j) == \E m \in 1..(Len(datedSets) - 1) : SizeUpTo(datedSets, m) = j
        IN  /\ Len(all) = n
            /\ { all[k] : k \in 1..Len(all) } = 1..n
            /\ \A k \in 1..Len(sets) : sets[k] # <<>>
            /\ \A i \in 1..n : ~IsDated(i) => \E k \in 1..Len(sets) : sets[k] = <<i>>
            /\ \A k \in 1..Len(sets) :
                   Len(sets[k]) > 1 => \A j \in 1..Len(sets[k]) : IsDated(sets[k][j])
            /\ \A j \in 1..(Len(cat) - 1) :
                   /\ StartOf(cat[j]) <= StartOf(cat[j + 1])
                   /\ CutAfter(j) <=> (StartOf(cat[j + 1]) - EndOf(cat[j]) > batchGap)
            /\ (fileList = ExampleFiles /\ batchGap = 5) => sets = << <<1, 2>>, <<3>> >>

C12_Witness ==
    /\ bpc = "done"
    /\ fileList = ExampleFiles
    /\ batchGap = 5
    /\ Len(sets) = 2

\* C13: a set is skipped (neither loaded nor saved) exactly when it has one
\* member and withSingles is not set; every set with two or more members,
\* and every one-member set when withSingles is set, is loaded. This holds
\* for the sets of batch mode as for the one set of a run without --batch.
C13_SingleSkipping ==
    /\ [](pc = "skipped" => (saveParams = <<>> /\ stages = <<>>))
    /\ [][ pc = "picked" =>
             IF mergeSet.numImages = 1 /\ ~general.withSingles
             THEN /\ pc' = "skipped"
                  /\ UNCHANGED <<stack, rawParameters, decoded, loads, saveParams>>
             ELSE /\ pc' = "loop"
                  /\ options' = mergeSet
                  /\ loads' = loads + 1 ]_vars

\* a single image skipped in batch mode after another set was loaded
C13_Witness ==
    /\ pc = "skipped"
    /\ general.batch
    /\ loads = 1

----------------------------------------------------------------------------
(* Claims about ImageIO::save and the stages of ImageIO::load *)

\* C19 as stated: for every successfully loaded batch the descriptor that
\* save hands to the writer is the descriptor of the last-loaded input,
\* whatever positions the stack chose.
C19_LastLoaded ==
    (pc = "saved" /\ rawParameters # <<>>) =>
        saveParams[1].item = LoopLimit(options) - 1

\* C19, amended: the descriptor that save hands to the writer is the one at
\* the back of the descriptor list, that is the descriptor decoded with the
\* exposure at the last position of the stack; after a load that left no
\* descriptor, save reads the back of an empty list (undefined behaviour).
C19_LastInStack ==
    pc = "saved" =>
        IF rawParameters # <<>>
        THEN /\ Len(saveParams) = 1
             /\ saveParams[1].item = stack[Len(stack)]
             /\ saveParams[1].fmt = options.items[stack[Len(stack)] + 1].fmt
        ELSE ub /\ saveParams = << GarbageDescriptor >>

\* three files saved whose last stack position holds the file loaded first
C19_Witness ==
    /\ pc = "saved"
    /\ Len(stack) = 3
    /\ saveParams = << [item |-> 0, fmt |-> 1] >>
    /\ stack[3] = 0

ListedOrder ==
    <<"whiteLevel", "calculateSaturationLevel", "align", "crop",
      "computeResponseFunctions", "generateMask">>

StageRan(s) == \E k \in 1..Len(stages) : stages[k] = s
IsListed(s) == \E k \in 1..Len(ListedOrder) : ListedOrder[k] = s

\* C20: the stack-level stages run only after every item of the batch was
\* inserted (never after a failure, never while the loop runs), and those
\* that run do so once each in the order white-level ceiling, saturation,
\* align, crop, response functions, mask; saturation, response functions and
\* mask always run.
C20_StageOrder ==
    /\ pc \in {"loop", "after"} => stages = <<>>
    /\ error # 0 => stages = <<>>
    /\ stages # <<>> =>
        /\ error = 0
        /\ loopI = LoopLimit(options)
        /\ Len(stack) = LoopLimit(options)
        /\ \A k \in 1..Len(options.items) : options.items[k].good
        /\ SelectSeq(stages, IsListed) = SelectSeq(ListedOrder, StageRan)
        /\ StageRan("calculateSaturationLevel")
        /\ StageRan("computeResponseFunctions")
        /\ StageRan("generateMask")

\* a load of three files that ran every stage
C20_Witness ==
    /\ pc = "returned"
    /\ Len(stack) = 3
    /\ Len(stages) = 7

----------------------------------------------------------------------------
(* Claims about the align and crop switches of ImageIO::load *)

\* load returned numImages << 1 after post-processing a populated stack
LoadSucceeded ==
    /\ pc = "returned"
    /\ error = 0
    /\ Len(stack) > 0
    /\ stages # <<>>

\* C21 as stated: in a successful load the crop stage runs exactly when the
\* crop option is enabled and the align stage exactly when the align option
\* is enabled, whatever the other option is.
C21_IndependentSwitches ==
    LoadSucceeded =>
        /\ StageRan("crop") <=> switches.crop
        /\ StageRan("align") <=> switches.align

\* C21, amended: in a successful load the align stage runs exactly when the
\* align option is enabled and the first descriptor can be aligned, and the
\* crop stage runs exactly when the crop option is enabled and the align
\* stage ran; with align disabled neither runs.
C21_CropWithinAlign ==
    LoadSucceeded =>
        /\ StageRan("align") <=> (switches.align /\ canAlign)
        /\ StageRan("crop") <=> (switches.crop /\ StageRan("align"))
        /\ ~switches.align => ~StageRan("align") /\ ~StageRan("crop")

\* a successful load with crop enabled and align disabled: no crop stage
C21_Witness ==
    /\ LoadSucceeded
    /\ switches.crop
    /\ ~switches.align
    /\ canAlign
    /\ ~StageRan("crop")

----------------------------------------------------------------------------
(* Claims about the progress reports of ImageIO::load *)

IsLoadReport(r) == r.message \in {"Loading", "Processing stack", "Done loading!"}

\* what the indicator was told by the load of the current set
LoadReports == SelectSeq(progress, IsLoadReport)

\* n of the claim: the files of the set, or the frames of its one file
ItemCount == IF options.numImages = 1 THEN options.frameCount ELSE options.numImages

\* C22: every percentage load reports lies in 0..100, the percentages of one
\* load never decrease, every item load reached was announced, the item with
\* 0-based index k at k * floor(100 / (n + 1)), and 100 is reported only as
\* the last report of a load that ran its loop to the end without an error.
C22_LoadProgress ==
    /\ \A k \in 1..Len(LoadReports) : LoadReports[k].percent \in 0..100
    /\ \A k \in 1..(Len(LoadReports) - 1) :
        LoadReports[k].percent <= LoadReports[k + 1].percent
    /\ progress # <<>> =>
        /\ Len(LoadReports) >= Len(decoded)
        /\ \A k \in 1..Len(LoadReports) :
            /\ LoadReports[k].message = "Loading" <=> k <= Len(decoded)
            /\ LoadReports[k].message = "Loading" =>
                LoadReports[k].percent = (k - 1) * (100 \div (ItemCount + 1))
            /\ LoadReports[k].percent = 100 =>
                /\ k = Len(LoadReports)
                /\ LoadReports[k].message = "Done loading!"
                /\ error = 0
                /\ loopI = LoopLimit(options)
                /\ pc \notin {"loop", "after"}
    /\ (pc = "returned" /\ error = 0) =>
        LoadReports[Len(LoadReports)].percent = 100

\* a load of two files that succeeded: 0, 33, then 66 and 100
C22_Witness ==
    /\ pc = "returned"
    /\ options.numImages = 2
    /\ progress = << Report(0, "Loading"), Report(33, "Loading"),
                     Report(66, "Processing stack"), Report(100, "Done loading!") >>

----------------------------------------------------------------------------
(* Claims about Launcher::automaticMerge *)

Reported(message) == \E k \in 1..Len(progress) : progress[k].message = message

\* io.save was entered for the current set
SaveInvoked == Reported("Rendering image")

\* load reached its post-processing for the current set
PostProcessingStarted == Reported("Processing stack")

\* C24: save is invoked for a set only if the load of that set succeeded (its
\* loop met no decode failure and no mismatch), and whenever save is invoked
\* or the post-processing of load starts, the stack and the descriptor list
\* are non-empty.
C24_SaveAfterPopulatedLoad ==
    /\ SaveInvoked => error = 0
    /\ (SaveInvoked \/ PostProcessingStarted) =>
        /\ stack # <<>>
        /\ rawParameters # <<>>

----------------------------------------------------------------------------
\* C25: when automaticMerge returns, it returns 1 if it reported the failed
\* load of at least one set and 0 if it reported none.
C25_ExitStatus ==
    pc = "exited" => mergeResult = (IF errors > 0 THEN 1 ELSE 0)

----------------------------------------------------------------------------
(* Claims about ExifTransfer::copyMetadata *)

Families == {"xmp", "iptc", "exif"}

Fused == fpc \in {"fused", "refused"}

StartsWith(s, prefix) ==
    /\ Len(s) >= Len(prefix)
    /\ \A k \in 1..Len(prefix) : s[k] = prefix[k]

InExcludedGroup(key) ==
    \E prefix \in {ThumbPrefix, SubThumbPrefix, ImagePrefix, SubImagePrefix} :
        StartsWith(key.group, prefix)

Forced(key) == key \in includeImageKeys \/ key = NewSubfileType

ExifMake == [group |-> ImagePrefix, tag |-> "Make"]
XmpCreator == [group |-> <<"d", "c">>, tag |-> "creator"]
ThumbCompression ==
    [group |-> ThumbPrefix \o <<"n", "a", "i", "l">>, tag |-> "Compression"]
ExposureTime == [group |-> <<"P", "h", "o", "t", "o">>, tag |-> "ExposureTime"]

\* C14: every key the destination holds before the fusion, in any of the
\* three namespaces, other than the force-copied keys and the primary-image
\* flag, has the same value afterwards; the fusion removes no key.
C14_DestinationWins ==
    Fused =>
        \A ns \in Families :
            \A k \in DOMAIN dstBefore[ns] :
                /\ k \in DOMAIN dstMeta[ns]
                /\ (ns = "exif" /\ Forced(k)) \/ dstMeta[ns][k] = dstBefore[ns][k]

\* source and destination both hold dc.creator; the destination's value stays
C14_Witness ==
    /\ fpc = "fused"
    /\ srcOk /\ dstOk
    /\ XmpCreator \in DOMAIN srcMeta.xmp
    /\ XmpCreator \in DOMAIN dstBefore.xmp
    /\ dstMeta.xmp[XmpCreator] = "d"

\* the copy steps met no error before the force-copying loop was over
ForceLoopRan == srcFault.step \in {"none", "exif"}

C16_UnreadableSource ==
    (Fused /\ dstOk /\ ~srcOk) =>
        /\ NewSubfileType \in DOMAIN dstMeta.exif
        /\ dstMeta.exif[NewSubfileType] = Primary
        /\ dstMeta.xmp = dstBefore.xmp
        /\ dstMeta.iptc = dstBefore.iptc
        /\ DOMAIN dstMeta.exif = (DOMAIN dstBefore.exif) \cup {NewSubfileType}
        /\ \A k \in (DOMAIN dstBefore.exif) \ {NewSubfileType} :
               dstMeta.exif[k] = dstBefore.exif[k]
        /\ persist \in {"written", "failed"}
        /\ persist = "written" => written = << dstMeta >>

\* an unreadable source that holds two keys, a destination without the flag
C16_Witness ==
    /\ fpc = "fused"
    /\ dstOk /\ ~srcOk
    /\ ExposureTime \in DOMAIN srcMeta.exif
    /\ XmpCreator \in DOMAIN srcMeta.xmp
    /\ NewSubfileType \notin DOMAIN dstBefore.exif
    /\ persist = "written"

\* C17 as stated: every tag that only the source holds and whose group name
\* starts with Thumb, SubThumb, Image or SubImage, and every key of the
\* preview list that only the source holds, is absent from the destination
\* after the fusion.
C17_ExcludedGroups ==
    (Fused /\ dstOk) =>
        \A k \in (DOMAIN srcMeta.exif) \ (DOMAIN dstBefore.exif) :
            (InExcludedGroup(k) \/ k \in previewKeys) => k \notin DOMAIN dstMeta.exif

\* C17, amended: the same for every such tag other than the force-copied
\* keys and the primary-image flag (which the fusion puts into the
\* destination although their groups are Image and SubImage1).
C17_ExcludedExceptForced ==
    (Fused /\ dstOk) =>
        \A k \in (DOMAIN srcMeta.exif) \ (DOMAIN dstBefore.exif) :
            ((InExcludedGroup(k) \/ k \in previewKeys) /\ ~Forced(k))
                => k \notin DOMAIN dstMeta.exif

\* a thumbnail tag left behind while an ordinary tag was copied
C17_Witness ==
    /\ fpc = "fused"
    /\ srcOk /\ dstOk
    /\ DOMAIN srcMeta.exif = {ThumbCompression, ExposureTime}
    /\ dstBefore.exif = <<>>
    /\ DOMAIN dstMeta.exif = {ExposureTime, NewSubfileType}

\* C18: a second fusion of the same source into the destination the first
\* fusion left gives an equal destination in all three namespaces.
C18_Idempotence ==
    fpc = "refused" => \A ns \in Families : dstMeta[ns] = dstBefore[ns]

\* both fusions done with a source whose two IPTC keys the first one added
C18_Witness ==
    /\ fpc = "refused"
    /\ srcOk /\ dstOk
    /\ DOMAIN srcMeta.iptc = IptcKeys
    /\ \A k \in IptcKeys : k \in DOMAIN dstMeta.iptc /\ dstMeta.iptc[k] = "s"
\* the keys a copy step puts into the destination when it runs to its end
Copies(ns, k) ==
    IF ns = "xmp" THEN NotTiff(k)
    ELSE IF ns = "iptc" THEN TRUE
    ELSE Forced(k) \/ ~(InExcludedGroup(k) \/ k \in previewKeys)

\* the step of namespace ns was applied: the destination holds every key of
\* the source that the step copies
Applied(ns) ==
    \A k \in DOMAIN srcMeta[ns] : Copies(ns, k) => k \in DOMAIN dstMeta[ns]

\* the step of namespace ns did not run: the destination is as it was
NotRun(ns) == dstMeta[ns] = dstBefore[ns]

\* the tag-coded namespace is as it was but for the primary-image flag
OnlyFlagSet ==
    /\ DOMAIN dstMeta.exif = (DOMAIN dstBefore.exif) \cup {NewSubfileType}
    /\ dstMeta.exif[NewSubfileType] = Primary
    /\ \A k \in (DOMAIN dstBefore.exif) \ {NewSubfileType} :
           dstMeta.exif[k] = dstBefore.exif[k]

\* the first fusion of a readable source into a readable destination
FirstFusion == fpc = "fused" /\ srcOk /\ dstOk

\* C23 as stated: with a readable source and destination, an error raised in
\* one fusion step does not keep the later steps from being applied (after an
\* error in the XMP step the IPTC and Exif steps still copy their entries,
\* after one in the IPTC step the Exif step does), and the result is still
\* persisted.
C23_StepIsolation ==
    FirstFusion =>
        /\ srcFault.step = "xmp" => Applied("iptc") /\ Applied("exif")
        /\ srcFault.step = "iptc" => Applied("exif")
        /\ persist \in {"written", "failed"}

\* C23, amended: with a readable source and destination, an error raised in
\* one fusion step ends the copying: the steps before it were applied, the
\* failing step added nothing but source entries it handled before the
\* error, the steps after it did not run, the primary-image flag is set, and
\* the result is still persisted.
C23_LaterStepsSkipped ==
    (FirstFusion /\ srcFault.step # "none") =>
        /\ srcFault.step = "xmp" =>
            /\ (DOMAIN dstMeta.xmp) \ (DOMAIN dstBefore.xmp) \subseteq srcFault.before
            /\ NotRun("iptc")
            /\ OnlyFlagSet
        /\ srcFault.step = "iptc" =>
            /\ Applied("xmp")
            /\ (DOMAIN dstMeta.iptc) \ (DOMAIN dstBefore.iptc) \subseteq srcFault.before
            /\ OnlyFlagSet
        /\ srcFault.step \in {"force", "exif"} =>
            /\ Applied("xmp")
            /\ Applied("iptc")
        /\ srcFault.step = "force" =>
            (DOMAIN dstMeta.exif) \ (DOMAIN dstBefore.exif)
                \subseteq srcFault.before \cup {NewSubfileType}
        /\ srcFault.step = "exif" =>
            (DOMAIN dstMeta.exif) \ (DOMAIN dstBefore.exif)
                \subseteq srcFault.before \cup includeImageKeys \cup {NewSubfileType}
        /\ \A ns \in Families :
            srcFault.at[1] \in DOMAIN dstMeta[ns] => srcFault.at[1] \in DOMAIN dstBefore[ns]
        /\ dstMeta.exif[NewSubfileType] = Primary
        /\ persist \in {"written", "failed"}
        /\ persist = "written" => written = << dstMeta >>

\* an error in the XMP step of a source that holds an IPTC entry: the entry
\* stays out of the destination, which gets the flag and is written
C23_Witness ==
    /\ FirstFusion
    /\ srcFault.step = "xmp"
    /\ DOMAIN srcMeta.iptc # {}
    /\ dstBefore = NoMeta
    /\ dstMeta.iptc = <<>>
    /\ DOMAIN dstMeta.exif = {NewSubfileType}
    /\ persist = "written"

====
